---- MODULE Spec2Model ----
(***************************************************************************)
(* Gophunc: Optional / Either / Result and the promise package built on    *)
(* them (New, Then, Catch, Await, All, Any), modelled goroutine by         *)
(* goroutine with Go's unbuffered-channel rendezvous.                      *)
(***************************************************************************)
EXTENDS Integers, Sequences, FiniteSets, TLC

\* ------------------------------------------------------------------ bounds
MaxVal == 2
MaxAwaiters == 3
MaxInputs == 3
MaxChain == 2
MaxChainAwaiters == 1
MaxAggAwaiters == 1
MaxBuildInputs == 2
MaxOps == 3
MaxLen == 3
MaxSpare == 1
MaxShared == 1
MaxArg == 3
IntBits == 4

\* ------------------------------------------------------------- value types
\* A Go type parameter is represented by its zero value.
IntT == 0
SeqT == <<>>
ErrT == <<>>

\* An error is the sequence of its causes; the nil error has none.
NilErr == ErrT
Err(name) == <<name>>
ErrNames == {"e1", "e2"}
Values == 0..MaxVal

\* optional.Just / optional.Nothing
Just(t) == [value |-> t, isSet |-> TRUE]
Nothing(T) == [value |-> T, isSet |-> FALSE]

\* the zero Optional[T] (var o Optional[T])
OptT == Nothing(IntT)

\* result.OK / result.Error: an Either[error, T]
OK(t) == [Left |-> Nothing(ErrT), Right |-> Just(t)]
Error(T, e) == [Left |-> Just(e), Right |-> Nothing(T)]

IsOK(x) == x.Right.isSet
IsError(x) == ~IsOK(x)

\* Faulty variant: the value is kept beside the error.
NewResultKeepsValue(T, result, e) ==
    IF e # NilErr
        THEN [Left |-> Just(e), Right |-> [value |-> result, isSet |-> FALSE]]
        ELSE OK(result)

\* result.NewResult (R.New in the promise package)
NewResult(T, result, e) == IF e # NilErr THEN Error(T, e) ELSE OK(result)

\* the zero Result struct (var result R.Result[T])
ZeroResult(T) == [Left |-> Nothing(ErrT), Right |-> Nothing(T)]

\* errors.Join: the non-nil causes in order, nil when there are none
RECURSIVE Join(_)
Join(es) == IF es = <<>> THEN NilErr ELSE Head(es) \o Join(Tail(es))

\* The causes retrievable from an error (Unwrap() []error of a joined
\* error, the error itself otherwise); e contains c when c's are among them.
Causes(e) == {e[j] : j \in DOMAIN e}
Contains(e, c) == c # NilErr /\ Causes(c) \subseteq Causes(e)

\* ------------------------------------------------------------------- state
VARIABLES
    kind,       \* promise -> "task" | "then" | "catch" | "all" | "any" |
                \*            "awaitall" (AwaitAll of the root package) |
                \*            "never" (made by New, its task never returns) |
                \*            "rthen" (Then of the root package)
    parent,     \* then/catch promise -> the promise it was chained on (0: none)
    ins,        \* all/any promise -> the sequence of its input promises
    taskRes,    \* task promise -> the Result its task function returns
    fn,         \* then promise -> its successFn
    pc,         \* promise -> position of the goroutine New started
    r,          \* promise -> r := f(), the Result the task returned
    err,        \* promise -> p.err
    closed,     \* promise -> p.fulfill is closed
    calls,      \* then/catch promise -> arguments its callback was invoked with
    awPc,       \* awaiter -> "call" | "done"
    awTarget,   \* awaiter -> the promise it calls Await on
    awRet,      \* awaiter -> the Result Await returned
    wpc,        \* all/any promise -> position of each per-promise goroutine
    wr,         \* all/any promise -> r := p.Await() of each per-promise goroutine
    wloc,       \* all promise -> the slice each goroutine read for its append
    res,        \* all promise -> res
    errs,       \* all promise -> errs (AwaitAll: var e error, <<>> when nil,
                \*                      else the list of the one error it holds)
    wg,         \* all/any promise -> the WaitGroup counter
    watcher,    \* any promise -> position of the goroutine that closes resultChan
    rcClosed,   \* any promise -> resultChan is closed
    made,       \* the Optional, Either or Result as its constructor built it
    cur,        \* the Optional, Either or Result the caller holds now
    ops,        \* the method calls made so far, each with its callback
    trace,      \* the invocations of callbacks so far, each with its argument
    ret         \* what the last method call returned

prog == <<kind, parent, ins, taskRes, fn>>
awaiters == <<awPc, awTarget, awRet>>
workers == <<wpc, wr, wloc, res, errs, wg, watcher, rcClosed>>
data == <<made, cur, ops, trace, ret>>
vars == <<prog, pc, r, err, closed, calls, awaiters, workers, data>>

Promises == DOMAIN kind
Awaiters == DOMAIN awPc

\* The type of a promise's value: All yields a Promise[[]T].
TypeOf(p) ==
    IF kind[p] \in {"all", "awaitall"} THEN SeqT
    ELSE IF kind[p] = "anybuf" THEN OptT ELSE IntT

\* ---------------------------------------------------------------- New
\* r := f() for a promise whose task is a plain function.
TaskReturn(p) ==
    /\ kind[p] = "task"
    /\ pc[p] = "run"
    /\ r' = [r EXCEPT ![p] = taskRes[p]]
    /\ pc' = [pc EXCEPT ![p] = "commit"]
    /\ UNCHANGED <<data, prog, err, closed, calls, awaiters, workers>>

\* Faulty variant: the error is not stored before the channel is closed.
CommitLeavesErr(p) ==
    /\ pc[p] = "commit"
    /\ pc' = [pc EXCEPT ![p] = IF IsError(r[p]) THEN "close" ELSE "send"]
    /\ UNCHANGED <<data, prog, r, err, closed, calls, awaiters, workers>>

\* r.IfErrorThen(p.err = err), then on to IfOKThen's send or to close.
Commit(p) ==
    /\ pc[p] = "commit"
    /\ IF IsError(r[p])
         THEN /\ err' = [err EXCEPT ![p] = r[p].Left.value]
              /\ pc' = [pc EXCEPT ![p] = "close"]
         ELSE /\ err' = err
              /\ pc' = [pc EXCEPT ![p] = "send"]
    /\ UNCHANGED <<data, prog, r, closed, calls, awaiters, workers>>

\* Faulty variant: the goroutine ends without closing the channel.
CloseSkipped(p) ==
    /\ pc[p] = "close"
    /\ pc' = [pc EXCEPT ![p] = "done"]
    /\ UNCHANGED <<data, prog, r, err, closed, calls, awaiters, workers>>

\* close(p.fulfill)
Close(p) ==
    /\ pc[p] = "close"
    /\ closed' = [closed EXCEPT ![p] = TRUE]
    /\ pc' = [pc EXCEPT ![p] = "done"]
    /\ UNCHANGED <<data, prog, r, err, calls, awaiters, workers>>

\* ---------------------------------------------------------------- Await
\* res := <-p.fulfill can proceed: a sender is blocked in p.fulfill <- t
\* (unbuffered rendezvous) or the channel is closed.
CanRecv(q) == pc[q] = "send" \/ closed[q]

\* Faulty variant: the value stays readable after the channel is closed.
ReceivedKept(q) == IF IsOK(r[q]) THEN r[q].Right.value ELSE TypeOf(q)

\* What the receive yields: the sent value, or T's zero value when closed.
Received(q) == IF closed[q] THEN TypeOf(q) ELSE r[q].Right.value

\* Await: res := <-p.fulfill; return R.New(res, p.err)
\* (p.err is written only before the close and never while a send is
\* pending, so the read after the receive sees p.err as it is at the receive.)
Await(q) == NewResult(TypeOf(q), Received(q), err[q])

\* The sender side of the rendezvous: the send returns, close is next.
SenderAfter(q) == IF closed[q] THEN pc[q] ELSE "close"

\* A caller outside the promises (the main goroutine) runs p.Await().
AwaitCall(a) ==
    /\ awPc[a] = "call"
    /\ CanRecv(awTarget[a])
    /\ awRet' = [awRet EXCEPT ![a] = Await(awTarget[a])]
    /\ awPc' = [awPc EXCEPT ![a] = "done"]
    /\ pc' = [pc EXCEPT ![awTarget[a]] = SenderAfter(awTarget[a])]
    /\ UNCHANGED <<data, prog, r, err, closed, calls, awTarget, workers>>

\* ---------------------------------------------------------- Then / Catch
\* The callbacks a program passes to Then: total functions T -> Result[T].
SuccessFns == {"next", "fail"}
ApplyFn(f, v) ==
    IF f = "next" THEN OK((v + 1) % (MaxVal + 1)) ELSE Error(IntT, Err("ef"))

\* Faulty variants of Then's task body: the failure branch missing (result
\* stays the zero Result), and successFn never applied.
ThenResultDropsError(f, a) ==
    IF IsOK(a) THEN ApplyFn(f, a.Right.value) ELSE ZeroResult(IntT)
ThenResultSkipsFn(f, a) == a

\* The body of Then's task once r := p.Await() has returned a:
\* r.IfOKThen(ok).IfErrorThen(fail); return &result
ThenResult(f, a) == IF IsOK(a) THEN ApplyFn(f, a.Right.value) ELSE a

\* The body of Catch's task: r.IfErrorThen(failFn); return r
CatchResult(a) == a

\* Faulty variant: successFn is applied without the Await on the parent.
ThenWithoutAwait(p) ==
    /\ kind[p] = "then"
    /\ pc[p] = "run"
    /\ r' = [r EXCEPT ![p] = ApplyFn(fn[p], IntT)]
    /\ calls' = [calls EXCEPT ![p] = Append(@, IntT)]
    /\ pc' = [pc EXCEPT ![p] = "commit"]
    /\ UNCHANGED <<data, prog, err, closed, awaiters, workers>>

\* The task of p.Then(successFn): it blocks in p.Await() on the parent.
Then(p) ==
    /\ kind[p] = "then"
    /\ pc[p] = "run"
    /\ CanRecv(parent[p])
    /\ LET a == Await(parent[p]) IN
         /\ r' = [r EXCEPT ![p] = ThenResult(fn[p], a)]
         /\ calls' = [calls EXCEPT
                ![p] = IF IsOK(a) THEN Append(@, a.Right.value) ELSE @]
    /\ pc' = [pc EXCEPT ![parent[p]] = SenderAfter(parent[p]), ![p] = "commit"]
    /\ UNCHANGED <<data, prog, err, closed, awaiters, workers>>

\* The task of p.Catch(failFn).
Catch(p) ==
    /\ kind[p] = "catch"
    /\ pc[p] = "run"
    /\ CanRecv(parent[p])
    /\ LET a == Await(parent[p]) IN
         /\ r' = [r EXCEPT ![p] = CatchResult(a)]
         /\ calls' = [calls EXCEPT
                ![p] = IF IsError(a) THEN Append(@, a.Left.value) ELSE @]
    /\ pc' = [pc EXCEPT ![parent[p]] = SenderAfter(parent[p]), ![p] = "commit"]
    /\ UNCHANGED <<data, prog, err, closed, awaiters, workers>>

\* ----------------------------------------------- Then (root package)
\* The body of the root package's Then once r := p.Await() has returned a:
\* var result Result[T]; r.IfOKThenApply(fn); return result
RootThenResult(f, a) ==
    IF IsOK(a) THEN ApplyFn(f, a.Right.value) ELSE ZeroResult(IntT)

\* The task of the root package's p.Then(successFn).
RootThen(p) ==
    /\ kind[p] = "rthen"
    /\ pc[p] = "run"
    /\ CanRecv(parent[p])
    /\ LET a == Await(parent[p]) IN
         /\ r' = [r EXCEPT ![p] = RootThenResult(fn[p], a)]
         /\ calls' = [calls EXCEPT
                ![p] = IF IsOK(a) THEN Append(@, a.Right.value) ELSE @]
    /\ pc' = [pc EXCEPT ![parent[p]] = SenderAfter(parent[p]), ![p] = "commit"]
    /\ UNCHANGED <<data, prog, err, closed, awaiters, workers>>

\* ------------------------------------------------------------------ All
\* A per-promise goroutine of All or Any: its wpc, wr and wloc entries.
SetW(f, p, i, v) == [f EXCEPT ![p] = [@ EXCEPT ![i] = v]]

\* All's task up to wg.Wait(): res, errs, and one goroutine per promise,
\* each counted by wg.Add(1) before it starts.
AllSpawn(p) ==
    /\ kind[p] = "all"
    /\ pc[p] = "run"
    /\ wpc' = [wpc EXCEPT ![p] = [i \in 1..Len(ins[p]) |-> "await"]]
    /\ wr' = [wr EXCEPT ![p] = [i \in 1..Len(ins[p]) |-> ZeroResult(IntT)]]
    /\ wloc' = [wloc EXCEPT ![p] = [i \in 1..Len(ins[p]) |-> <<>>]]
    /\ wg' = [wg EXCEPT ![p] = Len(ins[p])]
    /\ res' = [res EXCEPT ![p] = <<>>]
    /\ errs' = [errs EXCEPT ![p] = <<>>]
    /\ pc' = [pc EXCEPT ![p] = "wait"]
    /\ UNCHANGED <<data, prog, r, err, closed, calls, awaiters, watcher, rcClosed>>

\* r := p.Await() in the goroutine of the i-th promise.
AllWorkerAwait(p, i) ==
    /\ kind[p] = "all"
    /\ wpc[p][i] = "await"
    /\ CanRecv(ins[p][i])
    /\ wr' = SetW(wr, p, i, Await(ins[p][i]))
    /\ wpc' = SetW(wpc, p, i, "read")
    /\ pc' = [pc EXCEPT ![ins[p][i]] = SenderAfter(ins[p][i])]
    /\ UNCHANGED <<data, prog, r, err, closed, calls, awaiters,
                   wloc, res, errs, wg, watcher, rcClosed>>

\* append(errs, err) / append(res, result) is not atomic and no lock guards
\* it: the goroutine reads the shared slice ...
AllWorkerRead(p, i) ==
    /\ kind[p] = "all"
    /\ wpc[p][i] = "read"
    /\ wloc' = SetW(wloc, p, i, IF IsError(wr[p][i]) THEN errs[p] ELSE res[p])
    /\ wpc' = SetW(wpc, p, i, "write")
    /\ UNCHANGED <<data, prog, pc, r, err, closed, calls, awaiters,
                   wr, res, errs, wg, watcher, rcClosed>>

\* ... and later stores the slice it read, extended by its element.
AllWorkerAppend(p, i) ==
    /\ kind[p] = "all"
    /\ wpc[p][i] = "write"
    /\ IF IsError(wr[p][i])
         THEN /\ errs' = [errs EXCEPT
                     ![p] = Append(wloc[p][i], wr[p][i].Left.value)]
              /\ res' = res
         ELSE /\ res' = [res EXCEPT
                     ![p] = Append(wloc[p][i], wr[p][i].Right.value)]
              /\ errs' = errs
    /\ wpc' = SetW(wpc, p, i, "exit")
    /\ UNCHANGED <<data, prog, pc, r, err, closed, calls, awaiters,
                   wr, wloc, wg, watcher, rcClosed>>

\* defer wg.Done() of a per-promise goroutine of All or Any.
WorkerDone(p, i) ==
    /\ wpc[p][i] = "exit"
    /\ wg' = [wg EXCEPT ![p] = @ - 1]
    /\ wpc' = SetW(wpc, p, i, "done")
    /\ UNCHANGED <<data, prog, pc, r, err, closed, calls, awaiters,
                   wr, wloc, res, errs, watcher, rcClosed>>

\* Faulty variant: no values is taken for a failure.
AllResultEmptyIsError(rs, es) ==
    IF Len(es) # 0 \/ Len(rs) = 0 THEN Error(SeqT, Join(es)) ELSE OK(rs)

\* Faulty variant: values that were collected win over the errors.
AllResultPrefersValues(rs, es) ==
    IF Len(es) # 0 /\ Len(rs) = 0 THEN Error(SeqT, Join(es)) ELSE OK(rs)

\* The Result of All's task from res and errs.
AllResult(rs, es) ==
    IF Len(es) # 0 THEN Error(SeqT, Join(es)) ELSE OK(rs)

\* Faulty variant: All's task does not wait for its goroutines.
AllJoinNoWait(p) ==
    /\ kind[p] = "all"
    /\ pc[p] = "wait"
    /\ r' = [r EXCEPT ![p] = AllResult(res[p], errs[p])]
    /\ pc' = [pc EXCEPT ![p] = "commit"]
    /\ UNCHANGED <<data, prog, err, closed, calls, awaiters, workers>>

\* wg.Wait() returns, and All's task with it.
AllJoin(p) ==
    /\ kind[p] = "all"
    /\ pc[p] = "wait"
    /\ wg[p] = 0
    /\ r' = [r EXCEPT ![p] = AllResult(res[p], errs[p])]
    /\ pc' = [pc EXCEPT ![p] = "commit"]
    /\ UNCHANGED <<data, prog, err, closed, calls, awaiters, workers>>

\* ------------------------------------------- AwaitAll (root package)
\* The root package's NewPromise and Await are New and Await above; its
\* AwaitAll keeps one error e instead of errs.
AwaitAllSpawn(p) ==
    /\ kind[p] = "awaitall"
    /\ pc[p] = "run"
    /\ wpc' = [wpc EXCEPT ![p] = [i \in 1..Len(ins[p]) |-> "await"]]
    /\ wr' = [wr EXCEPT ![p] = [i \in 1..Len(ins[p]) |-> ZeroResult(IntT)]]
    /\ wloc' = [wloc EXCEPT ![p] = [i \in 1..Len(ins[p]) |-> <<>>]]
    /\ wg' = [wg EXCEPT ![p] = Len(ins[p])]
    /\ res' = [res EXCEPT ![p] = <<>>]
    /\ errs' = [errs EXCEPT ![p] = <<>>]
    /\ pc' = [pc EXCEPT ![p] = "wait"]
    /\ UNCHANGED <<data, prog, r, err, closed, calls, awaiters, watcher, rcClosed>>

\* r := p.Await() in the goroutine of the i-th promise.
AwaitAllWorkerAwait(p, i) ==
    /\ kind[p] = "awaitall"
    /\ wpc[p][i] = "await"
    /\ CanRecv(ins[p][i])
    /\ wr' = SetW(wr, p, i, Await(ins[p][i]))
    /\ wpc' = SetW(wpc, p, i,
                   IF IsError(Await(ins[p][i])) THEN "sete" ELSE "read")
    /\ pc' = [pc EXCEPT ![ins[p][i]] = SenderAfter(ins[p][i])]
    /\ UNCHANGED <<data, prog, r, err, closed, calls, awaiters,
                   wloc, res, errs, wg, watcher, rcClosed>>

\* e = err (unguarded; the last store stands)
AwaitAllWorkerSetErr(p, i) ==
    /\ kind[p] = "awaitall"
    /\ wpc[p][i] = "sete"
    /\ errs' = [errs EXCEPT ![p] = <<wr[p][i].Left.value>>]
    /\ wpc' = SetW(wpc, p, i, "exit")
    /\ UNCHANGED <<data, prog, pc, r, err, closed, calls, awaiters,
                   wr, wloc, res, wg, watcher, rcClosed>>

\* res = append(res, result): the read of res ...
AwaitAllWorkerRead(p, i) ==
    /\ kind[p] = "awaitall"
    /\ wpc[p][i] = "read"
    /\ wloc' = SetW(wloc, p, i, res[p])
    /\ wpc' = SetW(wpc, p, i, "write")
    /\ UNCHANGED <<data, prog, pc, r, err, closed, calls, awaiters,
                   wr, res, errs, wg, watcher, rcClosed>>

\* ... and the store of the extended slice.
AwaitAllWorkerAppend(p, i) ==
    /\ kind[p] = "awaitall"
    /\ wpc[p][i] = "write"
    /\ res' = [res EXCEPT ![p] = Append(wloc[p][i], wr[p][i].Right.value)]
    /\ wpc' = SetW(wpc, p, i, "exit")
    /\ UNCHANGED <<data, prog, pc, r, err, closed, calls, awaiters,
                   wr, wloc, errs, wg, watcher, rcClosed>>

\* if e != nil { return *Error[[]T](e) }; return *OK(res)
AwaitAllResult(rs, es) == IF es # <<>> THEN Error(SeqT, es[1]) ELSE OK(rs)

\* wg.Wait() returns, and AwaitAll's task with it.
AwaitAllJoin(p) ==
    /\ kind[p] = "awaitall"
    /\ pc[p] = "wait"
    /\ wg[p] = 0
    /\ r' = [r EXCEPT ![p] = AwaitAllResult(res[p], errs[p])]
    /\ pc' = [pc EXCEPT ![p] = "commit"]
    /\ UNCHANGED <<data, prog, err, closed, calls, awaiters, workers>>

\* ------------------------------------------------------------------ Any
\* Faulty variant: the closing goroutine is started with the first promise.
AnySpawnWatcherInLoop(p) ==
    /\ kind[p] = "any"
    /\ pc[p] = "run"
    /\ wpc' = [wpc EXCEPT ![p] = [i \in 1..Len(ins[p]) |-> "await"]]
    /\ wr' = [wr EXCEPT ![p] = [i \in 1..Len(ins[p]) |-> ZeroResult(IntT)]]
    /\ wg' = [wg EXCEPT ![p] = Len(ins[p])]
    /\ watcher' = [watcher EXCEPT
                     ![p] = IF Len(ins[p]) = 0 THEN "none" ELSE "wait"]
    /\ rcClosed' = [rcClosed EXCEPT ![p] = FALSE]
    /\ pc' = [pc EXCEPT ![p] = "recv"]
    /\ UNCHANGED <<data, prog, r, err, closed, calls, awaiters, wloc, res, errs>>

\* Any's task up to its receive: resultChan (unbuffered), one goroutine per
\* promise, and the goroutine that closes resultChan after wg.Wait().
AnySpawn(p) ==
    /\ kind[p] = "any"
    /\ pc[p] = "run"
    /\ wpc' = [wpc EXCEPT ![p] = [i \in 1..Len(ins[p]) |-> "await"]]
    /\ wr' = [wr EXCEPT ![p] = [i \in 1..Len(ins[p]) |-> ZeroResult(IntT)]]
    /\ wg' = [wg EXCEPT ![p] = Len(ins[p])]
    /\ watcher' = [watcher EXCEPT ![p] = "wait"]
    /\ rcClosed' = [rcClosed EXCEPT ![p] = FALSE]
    /\ pc' = [pc EXCEPT ![p] = "recv"]
    /\ UNCHANGED <<data, prog, r, err, closed, calls, awaiters, wloc, res, errs>>

\* Faulty variant: a goroutine whose promise failed ends without wg.Done().
AnyWorkerNextNoDone(a) == IF IsOK(a) THEN "send" ELSE "done"

\* Where a per-promise goroutine of Any goes with r: to the send on
\* resultChan when r is OK, to its end otherwise.
AnyWorkerNext(a) == IF IsOK(a) THEN "send" ELSE "exit"

\* r := p.Await() in the goroutine of the i-th promise.
AnyWorkerAwait(p, i) ==
    /\ kind[p] = "any"
    /\ wpc[p][i] = "await"
    /\ CanRecv(ins[p][i])
    /\ wr' = SetW(wr, p, i, Await(ins[p][i]))
    /\ wpc' = SetW(wpc, p, i, AnyWorkerNext(Await(ins[p][i])))
    /\ pc' = [pc EXCEPT ![ins[p][i]] = SenderAfter(ins[p][i])]
    /\ UNCHANGED <<data, prog, r, err, closed, calls, awaiters,
                   wloc, res, errs, wg, watcher, rcClosed>>

\* The Results of Any's task: a value was received, or resultChan is closed.
AnyOnValue(v) == OK(v)
AnyOnClosed == Error(IntT, Err("all promises failed"))

\* Faulty variant: the value is taken only when no sibling is still awaiting.
AnyDeliverAfterSiblings(p, i) ==
    /\ kind[p] = "any"
    /\ pc[p] = "recv"
    /\ wpc[p][i] = "send"
    /\ ~rcClosed[p]
    /\ \A j \in DOMAIN wpc[p] : wpc[p][j] # "await"
    /\ r' = [r EXCEPT ![p] = AnyOnValue(wr[p][i].Right.value)]
    /\ pc' = [pc EXCEPT ![p] = "commit"]
    /\ wpc' = SetW(wpc, p, i, "exit")
    /\ UNCHANGED <<data, prog, err, closed, calls, awaiters,
                   wr, wloc, res, errs, wg, watcher, rcClosed>>

\* resultChan <- t of the i-th goroutine meets result, ok := <-resultChan
\* of Any's task (rendezvous on the unbuffered channel).
AnyDeliver(p, i) ==
    /\ kind[p] = "any"
    /\ pc[p] = "recv"
    /\ wpc[p][i] = "send"
    /\ ~rcClosed[p]
    /\ r' = [r EXCEPT ![p] = AnyOnValue(wr[p][i].Right.value)]
    /\ pc' = [pc EXCEPT ![p] = "commit"]
    /\ wpc' = SetW(wpc, p, i, "exit")
    /\ UNCHANGED <<data, prog, err, closed, calls, awaiters,
                   wr, wloc, res, errs, wg, watcher, rcClosed>>

\* Faulty variant: the closing goroutine does not wait for the others.
AnyWatcherNoWait(p) ==
    /\ watcher[p] = "wait"
    /\ watcher' = [watcher EXCEPT ![p] = "close"]
    /\ UNCHANGED <<data, prog, pc, r, err, closed, calls, awaiters,
                   wpc, wr, wloc, res, errs, wg, rcClosed>>

\* wg.Wait() of the closing goroutine returns.
AnyWatcherWait(p) ==
    /\ watcher[p] = "wait"
    /\ wg[p] = 0
    /\ watcher' = [watcher EXCEPT ![p] = "close"]
    /\ UNCHANGED <<data, prog, pc, r, err, closed, calls, awaiters,
                   wpc, wr, wloc, res, errs, wg, rcClosed>>

\* close(resultChan)
AnyWatcherClose(p) ==
    /\ watcher[p] = "close"
    /\ rcClosed' = [rcClosed EXCEPT ![p] = TRUE]
    /\ watcher' = [watcher EXCEPT ![p] = "done"]
    /\ UNCHANGED <<data, prog, pc, r, err, closed, calls, awaiters,
                   wpc, wr, wloc, res, errs, wg>>

\* result, ok := <-resultChan on the closed channel: ok is false.
AnyFail(p) ==
    /\ kind[p] = "any"
    /\ pc[p] = "recv"
    /\ rcClosed[p]
    /\ r' = [r EXCEPT ![p] = AnyOnClosed]
    /\ pc' = [pc EXCEPT ![p] = "commit"]
    /\ UNCHANGED <<data, prog, err, closed, calls, awaiters, workers>>

\* ------------------------------------------- Any (1-buffered resultChan)
\* Any's task up to its receive: resultChan with room for one value (res
\* holds what is in it), errCount, one goroutine per promise, and the
\* goroutine that closes resultChan after wg.Wait().
AnyBufSpawn(p) ==
    /\ kind[p] = "anybuf"
    /\ pc[p] = "run"
    /\ wpc' = [wpc EXCEPT ![p] = [i \in 1..Len(ins[p]) |-> "await"]]
    /\ wr' = [wr EXCEPT ![p] = [i \in 1..Len(ins[p]) |-> ZeroResult(IntT)]]
    /\ wloc' = [wloc EXCEPT ![p] = [i \in 1..Len(ins[p]) |-> 0]]
    /\ wg' = [wg EXCEPT ![p] = Len(ins[p])]
    /\ res' = [res EXCEPT ![p] = <<>>]
    /\ errs' = [errs EXCEPT ![p] = 0]
    /\ watcher' = [watcher EXCEPT ![p] = "wait"]
    /\ rcClosed' = [rcClosed EXCEPT ![p] = FALSE]
    /\ pc' = [pc EXCEPT ![p] = "recv"]
    /\ UNCHANGED <<data, prog, r, err, closed, calls, awaiters>>

\* Where a per-promise goroutine goes with r: to the send on resultChan
\* when r is OK, to errCount++ otherwise.
AnyBufWorkerNext(a) == IF IsOK(a) THEN "send" ELSE "count"

\* r := p.Await() in the goroutine of the i-th promise.
AnyBufWorkerAwait(p, i) ==
    /\ kind[p] = "anybuf"
    /\ wpc[p][i] = "await"
    /\ CanRecv(ins[p][i])
    /\ wr' = SetW(wr, p, i, Await(ins[p][i]))
    /\ wpc' = SetW(wpc, p, i, AnyBufWorkerNext(Await(ins[p][i])))
    /\ pc' = [pc EXCEPT ![ins[p][i]] = SenderAfter(ins[p][i])]
    /\ UNCHANGED <<data, prog, r, err, closed, calls, awaiters,
                   wloc, res, errs, wg, watcher, rcClosed>>

\* resultChan <- *O.Just(t): proceeds while the buffer has room; on a closed
\* channel the send panics.
AnyBufSend(p, i) ==
    /\ kind[p] = "anybuf"
    /\ wpc[p][i] = "send"
    /\ rcClosed[p] \/ res[p] = <<>>
    /\ IF rcClosed[p]
         THEN /\ wpc' = SetW(wpc, p, i, "panic")
              /\ res' = res
         ELSE /\ wpc' = SetW(wpc, p, i, "exit")
              /\ res' = [res EXCEPT ![p] = <<Just(wr[p][i].Right.value)>>]
    /\ UNCHANGED <<data, prog, pc, r, err, closed, calls, awaiters,
                   wr, wloc, errs, wg, watcher, rcClosed>>

\* errCount++ without synchronisation: the read of errCount ...
AnyBufCountRead(p, i) ==
    /\ kind[p] = "anybuf"
    /\ wpc[p][i] = "count"
    /\ wloc' = SetW(wloc, p, i, errs[p])
    /\ wpc' = SetW(wpc, p, i, "store")
    /\ UNCHANGED <<data, prog, pc, r, err, closed, calls, awaiters,
                   wr, res, errs, wg, watcher, rcClosed>>

\* ... and the store of the value read plus one.
AnyBufCountStore(p, i) ==
    /\ kind[p] = "anybuf"
    /\ wpc[p][i] = "store"
    /\ errs' = [errs EXCEPT ![p] = wloc[p][i] + 1]
    /\ wpc' = SetW(wpc, p, i, "exit")
    /\ UNCHANGED <<data, prog, pc, r, err, closed, calls, awaiters,
                   wr, wloc, res, wg, watcher, rcClosed>>

\* result, ok := <-resultChan takes the buffered value (ok is true, also
\* when the channel was closed after the send).
AnyBufTake(p) ==
    /\ kind[p] = "anybuf"
    /\ pc[p] = "recv"
    /\ res[p] # <<>>
    /\ r' = [r EXCEPT ![p] = OK(res[p][1])]
    /\ res' = [res EXCEPT ![p] = <<>>]
    /\ pc' = [pc EXCEPT ![p] = "commit"]
    /\ UNCHANGED <<data, prog, err, closed, calls, awaiters,
                   wpc, wr, wloc, errs, wg, watcher, rcClosed>>

\* result, ok := <-resultChan on the closed, empty channel: ok is false.
AnyBufFail(p) ==
    /\ kind[p] = "anybuf"
    /\ pc[p] = "recv"
    /\ rcClosed[p]
    /\ res[p] = <<>>
    /\ r' = [r EXCEPT ![p] = Error(OptT, Err("all promises failed"))]
    /\ pc' = [pc EXCEPT ![p] = "commit"]
    /\ UNCHANGED <<data, prog, err, closed, calls, awaiters, workers>>

\* ------------------------------------------------------ initial states
\* A program of promises holds no Optional, Either or Result of its own.
NoData ==
    /\ made = <<>>
    /\ cur = <<>>
    /\ ops = <<>>
    /\ trace = <<>>
    /\ ret = <<>>

TaskResults ==
    {OK(v) : v \in Values} \cup {Error(IntT, Err(e)) : e \in ErrNames}
        \cup {Error(IntT, NilErr)}

NoWorkers(n) ==
    /\ wpc = [p \in 1..n |-> <<>>]
    /\ wr = [p \in 1..n |-> <<>>]
    /\ wloc = [p \in 1..n |-> <<>>]
    /\ res = [p \in 1..n |-> <<>>]
    /\ errs = [p \in 1..n |-> <<>>]
    /\ wg = [p \in 1..n |-> 0]
    /\ watcher = [p \in 1..n |-> "none"]
    /\ rcClosed = [p \in 1..n |-> FALSE]

Fresh(n) ==
    /\ pc = [p \in 1..n |-> "run"]
    /\ r = [p \in 1..n |-> ZeroResult(TypeOf(p))]
    /\ err = [p \in 1..n |-> NilErr]
    /\ closed = [p \in 1..n |-> FALSE]
    /\ calls = [p \in 1..n |-> <<>>]
    /\ NoWorkers(n)

\* The Await calls of the program: up to max of them, each on one of targets
\* (callers are interchangeable, so their targets are listed in order).
CallersOf(targets, max) ==
    \E n \in 0..max :
        /\ awTarget \in {t \in [1..n -> targets] :
                            \A i \in 1..n : i < n => t[i] <= t[i + 1]}
        /\ awPc = [a \in 1..n |-> "call"]
        /\ awRet = [a \in 1..n |-> ZeroResult(IntT)]

\* One promise made by New, and 0..MaxAwaiters calls of Await on it.
InitAwait ==
    /\ kind = <<"task">>
    /\ parent = <<0>>
    /\ ins = << <<>> >>
    /\ fn = <<"none">>
    /\ taskRes \in [{1} -> TaskResults]
    /\ Fresh(1)
    /\ CallersOf({1}, MaxAwaiters)
    /\ NoData

NextAwait ==
    \/ \E p \in Promises : TaskReturn(p) \/ Commit(p) \/ Close(p)
    \/ \E a \in Awaiters : AwaitCall(a)

SpecAwait == InitAwait /\ [][NextAwait]_vars

\* Go's scheduler runs a goroutine that can take a step.
FairSpecAwait == SpecAwait /\ WF_vars(NextAwait)

\* A promise made by New and MaxChain promises chained from it: each is
\* Then or Catch of an earlier one (a chain, or several continuations of one
\* parent), with up to MaxChainAwaiters direct Await calls.
InitChain ==
    /\ kind \in {k \in [1..(MaxChain + 1) -> {"task", "then", "catch"}] :
                    \A p \in DOMAIN k : (k[p] = "task") <=> (p = 1)}
    /\ parent \in {q \in [1..(MaxChain + 1) -> 0..MaxChain] :
                    \A p \in DOMAIN q : IF p = 1 THEN q[p] = 0
                                        ELSE q[p] >= 1 /\ q[p] < p}
    /\ ins = [p \in 1..(MaxChain + 1) |-> <<>>]
    /\ fn \in {f \in [1..(MaxChain + 1) -> SuccessFns \cup {"none"}] :
                    \A p \in DOMAIN f : (f[p] = "none") <=> (kind[p] # "then")}
    /\ taskRes \in [{1} -> TaskResults]
    /\ Fresh(MaxChain + 1)
    /\ CallersOf(1..(MaxChain + 1), MaxChainAwaiters)
    /\ NoData

NextChain ==
    \/ \E p \in Promises :
          TaskReturn(p) \/ Then(p) \/ Catch(p) \/ Commit(p) \/ Close(p)
    \/ \E a \in Awaiters : AwaitCall(a)

SpecChain == InitChain /\ [][NextChain]_vars

\* The root package: a promise made by NewPromise and MaxChain promises
\* chained from it by Then, with up to MaxChainAwaiters Await calls.
InitRootChain ==
    /\ kind = [p \in 1..(MaxChain + 1) |-> IF p = 1 THEN "task" ELSE "rthen"]
    /\ parent \in {q \in [1..(MaxChain + 1) -> 0..MaxChain] :
                    \A p \in DOMAIN q : IF p = 1 THEN q[p] = 0
                                        ELSE q[p] >= 1 /\ q[p] < p}
    /\ ins = [p \in 1..(MaxChain + 1) |-> <<>>]
    /\ fn \in {f \in [1..(MaxChain + 1) -> SuccessFns \cup {"none"}] :
                    \A p \in DOMAIN f : (f[p] = "none") <=> (p = 1)}
    /\ taskRes \in [{1} -> TaskResults]
    /\ Fresh(MaxChain + 1)
    /\ CallersOf(1..(MaxChain + 1), MaxChainAwaiters)
    /\ NoData

NextRootChain ==
    \/ \E p \in Promises :
          TaskReturn(p) \/ RootThen(p) \/ Commit(p) \/ Close(p)
    \/ \E a \in Awaiters : AwaitCall(a)

SpecRootChain == InitRootChain /\ [][NextRootChain]_vars

\* The Results the task of the i-th input promise of All or Any may return.
InputResults(i) == {OK(i), Error(IntT, Err("e" \o ToString(i)))}

\* n <= MaxInputs promises made by New and the aggregate of them (All or
\* Any, promise n + 1), with up to MaxAggAwaiters Await calls on it.
Aggregate(k, n) ==
    /\ kind = [p \in 1..(n + 1) |-> IF p <= n THEN "task" ELSE k]
    /\ parent = [p \in 1..(n + 1) |-> 0]
    /\ ins = [p \in 1..(n + 1) |->
                IF p <= n THEN <<>> ELSE [i \in 1..n |-> i]]
    /\ fn = [p \in 1..(n + 1) |-> "none"]
    /\ taskRes \in {t \in [1..n -> UNION {InputResults(i) : i \in 1..n}] :
                        \A i \in 1..n : t[i] \in InputResults(i)}
    /\ Fresh(n + 1)
    /\ NoData

InitAggregate(k) ==
    \E n \in 0..MaxInputs :
        /\ Aggregate(k, n)
        /\ CallersOf({n + 1}, MaxAggAwaiters)

InitAll == InitAggregate("all")

NextAll ==
    \/ \E p \in Promises :
          \/ TaskReturn(p) \/ Commit(p) \/ Close(p)
          \/ AllSpawn(p) \/ AllJoin(p)
          \/ \E i \in DOMAIN wpc[p] :
                \/ AllWorkerAwait(p, i) \/ AllWorkerRead(p, i)
                \/ AllWorkerAppend(p, i) \/ WorkerDone(p, i)
    \/ \E a \in Awaiters : AwaitCall(a)

SpecAll == InitAll /\ [][NextAll]_vars

\* All of package promise, or AwaitAll of the root package.
InitAllBoth == InitAggregate("all") \/ InitAggregate("awaitall")

NextAllBoth ==
    \/ NextAll
    \/ \E p \in Promises :
          \/ AwaitAllSpawn(p) \/ AwaitAllJoin(p)
          \/ \E i \in DOMAIN wpc[p] :
                \/ AwaitAllWorkerAwait(p, i) \/ AwaitAllWorkerSetErr(p, i)
                \/ AwaitAllWorkerRead(p, i) \/ AwaitAllWorkerAppend(p, i)

SpecAllBoth == InitAllBoth /\ [][NextAllBoth]_vars

InitAny == InitAggregate("any")

NextAny ==
    \/ \E p \in Promises :
          \/ TaskReturn(p) \/ Commit(p) \/ Close(p)
          \/ AnySpawn(p) \/ AnyFail(p)
          \/ AnyWatcherWait(p) \/ AnyWatcherClose(p)
          \/ \E i \in DOMAIN wpc[p] :
                AnyWorkerAwait(p, i) \/ AnyDeliver(p, i) \/ WorkerDone(p, i)
    \/ \E a \in Awaiters : AwaitCall(a)

SpecAny == InitAny /\ [][NextAny]_vars

\* All(promises...) over 1..MaxShared promises made by New, where a promise
\* may be passed more than once (up to MaxShared + 1 arguments) and the
\* program may also Await the promises passed directly (up to MaxShared
\* calls).
InitAllShared ==
    \E n \in 1..MaxShared :
        /\ kind = [p \in 1..(n + 1) |-> IF p <= n THEN "task" ELSE "all"]
        /\ parent = [p \in 1..(n + 1) |-> 0]
        /\ \E m \in 1..(MaxShared + 1) :
              ins \in {f \in [1..(n + 1) -> {<<>>} \cup [1..m -> 1..n]] :
                          \A p \in 1..(n + 1) : f[p] = <<>> <=> p <= n}
        /\ fn = [p \in 1..(n + 1) |-> "none"]
        /\ taskRes \in {t \in [1..n -> UNION {InputResults(i) : i \in 1..n}] :
                            \A i \in 1..n : t[i] \in InputResults(i)}
        /\ Fresh(n + 1)
        /\ CallersOf(1..n, MaxShared)
        /\ NoData

SpecAllShared == InitAllShared /\ [][NextAll]_vars
FairSpecAllShared == SpecAllShared /\ WF_vars(NextAll)

\* Any with the unbuffered or with the 1-buffered resultChan.
InitAnyBoth == InitAggregate("any") \/ InitAggregate("anybuf")

NextAnyBoth ==
    \/ NextAny
    \/ \E p \in Promises :
          \/ AnyBufSpawn(p) \/ AnyBufTake(p) \/ AnyBufFail(p)
          \/ \E i \in DOMAIN wpc[p] :
                \/ AnyBufWorkerAwait(p, i) \/ AnyBufSend(p, i)
                \/ AnyBufCountRead(p, i) \/ AnyBufCountStore(p, i)

SpecAnyBoth == InitAnyBoth /\ [][NextAnyBoth]_vars

\* Any over promises that the program may also Await directly.
InitAnyShared ==
    \E n \in 1..MaxInputs :
        /\ Aggregate("any", n)
        /\ CallersOf(1..(n + 1), MaxAwaiters)

SpecAnyShared == InitAnyShared /\ [][NextAny]_vars

\* Any over promises some of whose tasks never return.
InitAnyPending ==
    \E n \in 1..MaxInputs :
        /\ kind \in {k \in [1..(n + 1) -> {"task", "never", "any"}] :
                        \A p \in 1..(n + 1) : k[p] = "any" <=> p = n + 1}
        /\ parent = [p \in 1..(n + 1) |-> 0]
        /\ ins = [p \in 1..(n + 1) |->
                    IF p <= n THEN <<>> ELSE [i \in 1..n |-> i]]
        /\ fn = [p \in 1..(n + 1) |-> "none"]
        /\ taskRes \in {t \in [1..n -> UNION {InputResults(i) : i \in 1..n}] :
                            \A i \in 1..n : t[i] \in InputResults(i)}
        /\ Fresh(n + 1)
        /\ CallersOf({n + 1}, MaxAggAwaiters)
        /\ NoData

FairSpecAnyPending == InitAnyPending /\ [][NextAny]_vars /\ WF_vars(NextAny)

\* ------------------------------------------------- the constructors
\* The main goroutine makes the promises one after the other, in program
\* order; pc[p] = "new" until the call that makes p has returned, and the
\* goroutine of p starts with that call.
Make(p) ==
    /\ pc[p] = "new"
    /\ \A q \in Promises : q < p => pc[q] # "new"
    /\ pc' = [pc EXCEPT ![p] = "run"]
    /\ UNCHANGED <<data, prog, r, err, closed, calls, awaiters, workers>>

\* New(f): make the channel, start the goroutine, return p.
NewCall(p) == kind[p] \in {"task", "never"} /\ Make(p)

\* Faulty variant: Then awaits the parent before it returns the promise.
ThenCallAwaitsParent(p) ==
    kind[p] = "then" /\ CanRecv(parent[p]) /\ Make(p)

\* p.Then(successFn), p.Catch(failFn), All(promises...), Any(promises...):
\* each is return New(func ...), the Await calls are in the task.
ThenCall(p) == kind[p] = "then" /\ Make(p)
CatchCall(p) == kind[p] = "catch" /\ Make(p)
AllCall(p) == kind[p] = "all" /\ Make(p)
AnyCall(p) == kind[p] = "any" /\ Make(p)

\* The call that makes p.
Constructor(p) ==
    NewCall(p) \/ ThenCall(p) \/ CatchCall(p) \/ AllCall(p) \/ AnyCall(p)

\* n promises made by New (the task of some never returns), then one of
\* Then, Catch (of the first), All, Any (of all n), and Await calls on it.
InitBuild ==
    \E n \in 1..MaxBuildInputs :
        /\ kind \in {k \in [1..(n + 1) ->
                            {"task", "never", "then", "catch", "all", "any"}] :
                        \A p \in 1..(n + 1) :
                            k[p] \in {"task", "never"} <=> p <= n}
        /\ parent = [p \in 1..(n + 1) |->
                        IF kind[p] \in {"then", "catch"} THEN 1 ELSE 0]
        /\ ins = [p \in 1..(n + 1) |->
                    IF kind[p] \in {"all", "any"}
                        THEN [i \in 1..n |-> i] ELSE <<>>]
        /\ fn = [p \in 1..(n + 1) |->
                    IF kind[p] = "then" THEN "next" ELSE "none"]
        /\ taskRes \in {t \in [1..n -> UNION {InputResults(i) : i \in 1..n}] :
                            \A i \in 1..n : t[i] \in InputResults(i)}
        /\ pc = [p \in 1..(n + 1) |-> "new"]
        /\ r = [p \in 1..(n + 1) |-> ZeroResult(TypeOf(p))]
        /\ err = [p \in 1..(n + 1) |-> NilErr]
        /\ closed = [p \in 1..(n + 1) |-> FALSE]
        /\ calls = [p \in 1..(n + 1) |-> <<>>]
        /\ NoWorkers(n + 1)
        /\ CallersOf({n + 1}, MaxAggAwaiters)
        /\ NoData

NextBuild ==
    \/ \E p \in Promises :
          \/ NewCall(p) \/ ThenCall(p) \/ CatchCall(p)
          \/ AllCall(p) \/ AnyCall(p)
          \/ TaskReturn(p) \/ Then(p) \/ Catch(p) \/ Commit(p) \/ Close(p)
          \/ AllSpawn(p) \/ AllJoin(p)
          \/ AnySpawn(p) \/ AnyFail(p)
          \/ AnyWatcherWait(p) \/ AnyWatcherClose(p)
          \/ \E i \in DOMAIN wpc[p] :
                \/ AllWorkerAwait(p, i) \/ AllWorkerRead(p, i)
                \/ AllWorkerAppend(p, i) \/ WorkerDone(p, i)
                \/ AnyWorkerAwait(p, i) \/ AnyDeliver(p, i)
    \/ \E a \in Awaiters : AwaitCall(a)

SpecBuild == InitBuild /\ [][NextBuild]_vars

\* ------------------------------------------- Optional, Either, Result
\* A program that only calls methods of one Optional, Either or Result.
NoPromises ==
    /\ kind = <<>>
    /\ parent = <<>>
    /\ ins = <<>>
    /\ taskRes = <<>>
    /\ fn = <<>>
    /\ Fresh(0)
    /\ CallersOf({}, 0)

\* A call that returned x (no method of these types panics or returns an
\* error of its own).
Returns(x) == [panicked |-> FALSE, value |-> x]

\* The method call name with callback f has been made.
Called(name, f) == ops' = Append(ops, [op |-> name, f |-> f])

\* Optional.IsSet, Optional.Value
IsSet(o) == o.isSet
Value(o) == o.value

\* The callbacks a program passes to Optional.Then: total functions T -> T.
OptionalFns == {"succ", "double"}
ApplyT(f, v) ==
    IF f = "succ" THEN (v + 1) % (MaxVal + 1) ELSE (2 * v) % (MaxVal + 1)

\* Faulty variant: f is applied whether or not a value is set.
OptionalThenAlways(o, f) == [value |-> ApplyT(f, o.value), isSet |-> TRUE]

\* Optional.Then: if o.isSet { o.value = f(o.value) }; return o
OptionalThen(o, f) ==
    IF o.isSet THEN [o EXCEPT !.value = ApplyT(f, o.value)] ELSE o

\* The invocations of f that o.Then(f) makes.
ThenInvokes(o, f) == IF o.isSet THEN <<[f |-> f, arg |-> o.value]>> ELSE <<>>

CallIsSet ==
    /\ Len(ops) < MaxOps
    /\ Called("IsSet", "none")
    /\ ret' = Returns(IsSet(cur))
    /\ UNCHANGED <<made, cur, trace, prog, pc, r, err, closed, calls,
                   awaiters, workers>>

CallValue ==
    /\ Len(ops) < MaxOps
    /\ Called("Value", "none")
    /\ ret' = Returns(Value(cur))
    /\ UNCHANGED <<made, cur, trace, prog, pc, r, err, closed, calls,
                   awaiters, workers>>

\* o.Then(f) changes o in place and returns o.
CallThen(f) ==
    /\ Len(ops) < MaxOps
    /\ Called("Then", f)
    /\ cur' = OptionalThen(cur, f)
    /\ trace' = trace \o ThenInvokes(cur, f)
    /\ ret' = Returns(cur')
    /\ UNCHANGED <<made, prog, pc, r, err, closed, calls, awaiters, workers>>

\* Just(v) or Nothing(), and up to MaxOps method calls on it.
InitOptional ==
    /\ NoPromises
    /\ made \in {Just(v) : v \in Values} \cup {Nothing(IntT)}
    /\ cur = made
    /\ ops = <<>>
    /\ trace = <<>>
    /\ ret = <<>>

NextOptional ==
    \/ CallIsSet
    \/ CallValue
    \/ \E f \in OptionalFns : CallThen(f)

SpecOptional == InitOptional /\ [][NextOptional]_vars

\* ---------------------------------------------------------------- Either
\* Left(l), Right(r) of Either[L, R], here with L = R = int.
Left(l) == [Left |-> Just(l), Right |-> Nothing(IntT)]
Right(v) == [Left |-> Nothing(IntT), Right |-> Just(v)]

IsLeft(e) == IsSet(e.Left)
IsRight(e) == IsSet(e.Right)
ToLeft(e) == e.Left
ToRight(e) == e.Right

\* Faulty variants of Flip: both sides taken from Left; nothing swapped.
FlipCopiesLeft(e) == [Left |-> e.Left, Right |-> e.Left]
FlipKeepsSides(e) == e

\* Flip: a new Either with Left: e.Right, Right: e.Left
Flip(e) == [Left |-> e.Right, Right |-> e.Left]

\* The callback a program passes to IfLeftThen / IfRightThen (its effect is
\* its invocation), and the invocations the two methods make.
EitherFns == {"note"}
IfLeftInvokes(e, f) ==
    IF IsLeft(e) THEN <<[f |-> f, arg |-> Value(e.Left)]>> ELSE <<>>
IfRightInvokes(e, f) ==
    IF IsRight(e) THEN <<[f |-> f, arg |-> Value(e.Right)]>> ELSE <<>>

\* e.Flip(): e is left as it is, the new Either is returned.
CallFlip ==
    /\ Len(ops) < MaxOps
    /\ Called("Flip", "none")
    /\ ret' = Returns(Flip(cur))
    /\ UNCHANGED <<made, cur, trace, prog, pc, r, err, closed, calls,
                   awaiters, workers>>

\* e.IsLeft(), e.IsRight(), e.ToLeft(), e.ToRight()
CallQuery(name) ==
    /\ Len(ops) < MaxOps
    /\ Called(name, "none")
    /\ ret' = Returns(CASE name = "IsLeft" -> IsLeft(cur)
                        [] name = "IsRight" -> IsRight(cur)
                        [] name = "ToLeft" -> ToLeft(cur)
                        [] name = "ToRight" -> ToRight(cur))
    /\ UNCHANGED <<made, cur, trace, prog, pc, r, err, closed, calls,
                   awaiters, workers>>

\* e.IfLeftThen(f), e.IfRightThen(f): f may be invoked, e is returned.
CallIfLeftThen(f) ==
    /\ Len(ops) < MaxOps
    /\ Called("IfLeftThen", f)
    /\ trace' = trace \o IfLeftInvokes(cur, f)
    /\ ret' = Returns(cur)
    /\ UNCHANGED <<made, cur, prog, pc, r, err, closed, calls,
                   awaiters, workers>>

CallIfRightThen(f) ==
    /\ Len(ops) < MaxOps
    /\ Called("IfRightThen", f)
    /\ trace' = trace \o IfRightInvokes(cur, f)
    /\ ret' = Returns(cur)
    /\ UNCHANGED <<made, cur, prog, pc, r, err, closed, calls,
                   awaiters, workers>>

\* The program goes on with the Either that Flip returned: e = e.Flip()
TakeFlipped ==
    /\ Len(ops) < MaxOps
    /\ ops # <<>> /\ ops[Len(ops)].op = "Flip"
    /\ Called("take", "none")
    /\ cur' = ret.value
    /\ UNCHANGED <<made, trace, ret, prog, pc, r, err, closed, calls,
                   awaiters, workers>>

\* Left(l) or Right(r), and up to MaxOps steps of the program on it.
InitEither ==
    /\ NoPromises
    /\ made \in {Left(l) : l \in Values} \cup {Right(v) : v \in Values}
    /\ cur = made
    /\ ops = <<>>
    /\ trace = <<>>
    /\ ret = <<>>

NextEither ==
    \/ CallFlip
    \/ \E name \in {"IsLeft", "IsRight", "ToLeft", "ToRight"} : CallQuery(name)
    \/ \E f \in EitherFns : CallIfLeftThen(f)
    \/ \E f \in EitherFns : CallIfRightThen(f)
    \/ TakeFlipped

SpecEither == InitEither /\ [][NextEither]_vars

\* ---------------------------------------------------------------- Result
\* The errors a program hands to Error and NewResult, nil among them.
Errors == {Err(e) : e \in ErrNames} \cup {NilErr}

\* The callbacks a program passes to IfOKThen / IfErrorThen (their effect
\* is their invocation), and the invocations the two methods make.
ResultFns == {"a", "b"}
IfOKInvokes(x, f) ==
    IF IsOK(x) THEN <<[f |-> f, arg |-> Value(x.Right)]>> ELSE <<>>

\* Faulty variant: f is invoked whatever the Result is.
IfErrorInvokesAlways(x, f) == <<[f |-> f, arg |-> Value(x.Left)]>>

IfErrorInvokes(x, f) ==
    IF IsError(x) THEN <<[f |-> f, arg |-> Value(x.Left)]>> ELSE <<>>

\* The constructor call that starts the program: x is the Result it built.
Built(name, t, e, x) ==
    /\ ops = <<>>
    /\ ops' = <<[op |-> name, f |-> "none", args |-> <<t, e>>]>>
    /\ made' = x
    /\ cur' = x
    /\ ret' = Returns(x)
    /\ UNCHANGED <<trace, prog, pc, r, err, closed, calls, awaiters, workers>>

CallOK(t) == Built("OK", t, NilErr, OK(t))
CallError(e) == Built("Error", IntT, e, Error(IntT, e))
CallNewResult(t, e) == Built("NewResult", t, e, NewResult(IntT, t, e))

\* r.IsOK(), r.IsError()
CallIsOK ==
    /\ ops # <<>> /\ Len(ops) < MaxOps
    /\ Called("IsOK", "none")
    /\ ret' = Returns(IsOK(cur))
    /\ UNCHANGED <<made, cur, trace, prog, pc, r, err, closed, calls,
                   awaiters, workers>>

CallIsError ==
    /\ ops # <<>> /\ Len(ops) < MaxOps
    /\ Called("IsError", "none")
    /\ ret' = Returns(IsError(cur))
    /\ UNCHANGED <<made, cur, trace, prog, pc, r, err, closed, calls,
                   awaiters, workers>>

\* r.IfOKThen(f), r.IfErrorThen(f): f may be invoked, r is returned.
CallIfOKThen(f) ==
    /\ ops # <<>> /\ Len(ops) < MaxOps
    /\ Called("IfOKThen", f)
    /\ trace' = trace \o IfOKInvokes(cur, f)
    /\ ret' = Returns(cur)
    /\ UNCHANGED <<made, cur, prog, pc, r, err, closed, calls,
                   awaiters, workers>>

CallIfErrorThen(f) ==
    /\ ops # <<>> /\ Len(ops) < MaxOps
    /\ Called("IfErrorThen", f)
    /\ trace' = trace \o IfErrorInvokes(cur, f)
    /\ ret' = Returns(cur)
    /\ UNCHANGED <<made, cur, prog, pc, r, err, closed, calls,
                   awaiters, workers>>

\* Nothing built yet; then OK, Error or NewResult and, with it, up to
\* MaxOps calls in all.
InitResult ==
    /\ NoPromises
    /\ NoData

NextResult ==
    \/ \E t \in Values : CallOK(t)
    \/ \E e \in Errors : CallError(e)
    \/ \E t \in Values, e \in Errors : CallNewResult(t, e)
    \/ CallIsOK
    \/ CallIsError
    \/ \E f \in ResultFns : CallIfOKThen(f)
    \/ \E f \in ResultFns : CallIfErrorThen(f)

SpecResult == InitResult /\ [][NextResult]_vars

\* ------------------------------------------------------------ TypedArray
\* r.array is a Go slice: store is its backing storage from the slice's
\* first element on (Len(store) is the capacity), len its length.
Contents(a) == SubSeq(a.store, 1, a.len)

\* A run-time panic (slice bounds out of range) instead of a return.
Panic == [panicked |-> TRUE, value |-> <<>>]

\* append(a, xs...): in place when the capacity suffices, else in new
\* storage (of the capacity needed); the old storage is left as it was.
FitsInPlace(a, xs) == a.len + Len(xs) <= Len(a.store)
GoAppend(a, xs) ==
    IF FitsInPlace(a, xs)
        THEN [store |-> [i \in 1..Len(a.store) |->
                            IF i > a.len /\ i <= a.len + Len(xs)
                                THEN xs[i - a.len] ELSE a.store[i]],
              len |-> a.len + Len(xs)]
        ELSE [store |-> Contents(a) \o xs, len |-> a.len + Len(xs)]

\* TypedArray.Slice up to its return: nothing ("empty"), a panic in
\* r.array[start:end], or the view r.array[start:end] of the storage
\* (NewMapperArray(r.array[start:end]...) passes the slice on, uncopied).
SliceView(a, start, stop) ==
    LET s == IF start < 0 THEN a.len + start ELSE start
        e == IF stop < 0 THEN a.len + stop ELSE stop
    IN  IF start >= a.len \/ s >= e THEN [kind |-> "empty"]
        ELSE IF s < 0 \/ e > Len(a.store) THEN [kind |-> "panic"]
        ELSE [kind |-> "view", off |-> s, len |-> e - s]

\* The elements a view shows in the storage as it is now.
View(store, d) ==
    IF d.kind = "view" THEN SubSeq(store, d.off + 1, d.off + d.len) ELSE <<>>

\* TypedArray.Slice: what the caller gets.
Slice(a, start, stop) ==
    IF SliceView(a, start, stop).kind = "panic" THEN Panic
    ELSE Returns(View(a.store, SliceView(a, start, stop)))

\* TypedArray.Splice: the receiver afterwards (recv) and what the caller
\* gets (out): the elements the returned array shows after the call.
Splice(a, start, dc, items) ==
    IF start >= a.len
        THEN [recv |-> GoAppend(a, items), out |-> Returns(<<>>)]
    ELSE
        LET s == IF start < 0 THEN a.len + start ELSE start
            d == IF s + dc > a.len \/ dc < 0 THEN a.len - s ELSE dc
            deleted == SliceView(a, s, s + d)
        IN  IF deleted.kind = "panic" \/ s < 0
                THEN [recv |-> a, out |-> Panic]
            ELSE
                LET inner == items \o SubSeq(a.store, s + d + 1, a.len)
                    head == [store |-> a.store, len |-> s]
                IN  [recv |-> GoAppend(head, inner),
                     out |-> Returns(View(IF FitsInPlace(head, inner)
                                              THEN GoAppend(head, inner).store
                                              ELSE a.store,
                                          deleted))]

\* The arguments a program passes: indices and counts around the array's
\* bounds, and items that are not in the array.
Indices == (0 - MaxLen - 1)..(MaxLen + 1)
ItemLists == {<<>>, <<MaxLen + 1>>, <<MaxLen + 1, MaxLen + 2>>}

CallSplice(start, dc, items) ==
    /\ ops = <<>>
    /\ ops' = <<[op |-> "Splice", f |-> "none", args |-> <<start, dc, items>>]>>
    /\ cur' = Splice(cur, start, dc, items).recv
    /\ ret' = Splice(cur, start, dc, items).out
    /\ UNCHANGED <<made, trace, prog, pc, r, err, closed, calls,
                   awaiters, workers>>

CallSlice(start, stop) ==
    /\ ops = <<>>
    /\ ops' = <<[op |-> "Slice", f |-> "none", args |-> <<start, stop>>]>>
    /\ ret' = Slice(cur, start, stop)
    /\ UNCHANGED <<made, cur, trace, prog, pc, r, err, closed, calls,
                   awaiters, workers>>

\* An array of 1..n, n <= MaxLen, in storage with up to MaxSpare unused
\* places (holding zero values), and one call on it.
InitArray ==
    /\ NoPromises
    /\ made \in {[store |-> [i \in 1..(n + c) |-> IF i <= n THEN i ELSE 0],
                  len |-> n] : n \in 0..MaxLen, c \in 0..MaxSpare}
    /\ cur = made
    /\ ops = <<>>
    /\ trace = <<>>
    /\ ret = <<>>

NextArray ==
    \/ \E start \in Indices, dc \in Indices, items \in ItemLists :
          CallSplice(start, dc, items)
    \/ \E start \in Indices, stop \in Indices : CallSlice(start, stop)

SpecArray == InitArray /\ [][NextArray]_vars

\* ----------------------------------------------------------------- Range
\* Go's int wraps around on overflow; IntBits stands for its 64 bits.
WrapInt(x) ==
    ((x + 2 ^ (IntBits - 1)) % (2 ^ IntBits)) - 2 ^ (IntBits - 1)

\* step after `if step == 0 { step = 1 }`.
StepOf(a) == IF a.step = 0 THEN 1 ELSE a.step

\* The loop variable's first value: start for step > 0, end otherwise.
RangeFirst(a) == IF StepOf(a) > 0 THEN a.start ELSE a.stop

\* The loop condition: i < end for step > 0, i > start otherwise.
RangeGoesOn(a, i) == IF StepOf(a) > 0 THEN i < a.stop ELSE i > a.start

\* The loop's post statement: i += step for step > 0, i -= step otherwise.
RangeAdvance(a, i) ==
    IF StepOf(a) > 0 THEN WrapInt(i + StepOf(a)) ELSE WrapInt(i - StepOf(a))

\* One turn of the loop: result = append(result, i), then the post statement.
RangeLoop ==
    /\ ops = <<>>
    /\ RangeGoesOn(made, cur.i)
    /\ cur' = [i |-> RangeAdvance(made, cur.i),
               result |-> Append(cur.result, cur.i)]
    /\ UNCHANGED <<made, ops, trace, ret, prog, pc, r, err, closed, calls,
                   awaiters, workers>>

\* The loop condition fails: return result.
RangeReturn ==
    /\ ops = <<>>
    /\ ~RangeGoesOn(made, cur.i)
    /\ ops' = <<[op |-> "Range", f |-> "none"]>>
    /\ ret' = Returns(cur.result)
    /\ UNCHANGED <<made, cur, trace, prog, pc, r, err, closed, calls,
                   awaiters, workers>>

\* Range(start, end, step) called with small arguments, before its loop.
InitRange ==
    /\ NoPromises
    /\ made \in [start : (0 - MaxArg)..MaxArg, stop : (0 - MaxArg)..MaxArg,
                 step : (0 - 2)..2]
    /\ cur = [i |-> RangeFirst(made), result |-> <<>>]
    /\ ops = <<>>
    /\ trace = <<>>
    /\ ret = <<>>

NextRange == RangeLoop \/ RangeReturn

SpecRange == InitRange /\ [][NextRange]_vars

\* Go's scheduler runs a goroutine that can take a step: the program does
\* not stop while some goroutine is able to run.
FairSpecAny == SpecAny /\ WF_vars(NextAny)

\* A task "rejects with e" when it returns Error(e) for a non-nil e.
Rejects(x) == IsError(x) /\ x.Left.value # NilErr
Settles(x) == IsOK(x) \/ Rejects(x)

\* C1: every Await call on a promise made by New returns the Result its task
\* returned (OK(v), or Error(e)), however many calls there are and whenever
\* they are issued; no two calls on one promise return different Results.
C1_AwaitRepeatable ==
    \A a \in Awaiters :
        (awPc[a] = "done" /\ Settles(taskRes[awTarget[a]]))
            => /\ awRet[a] = taskRes[awTarget[a]]
               /\ \A b \in Awaiters :
                      (awPc[b] = "done" /\ awTarget[b] = awTarget[a])
                          => awRet[b] = awRet[a]

\* The goroutine of p has stored its outcome, closed the channel and ended.
Terminal(p) == pc[p] = "done" /\ closed[p]

\* C8: once the task function of a promise made by New has returned, the
\* promise reaches its terminal state (outcome stored, channel closed,
\* goroutine finished) even when nothing ever consumes it: the program
\* cannot come to rest with the goroutine still blocked.
C8_CommitsWithoutConsumer ==
    \A p \in Promises :
        (pc[p] \in {"commit", "send", "close", "done"} /\ ~ENABLED NextAwait)
            => Terminal(p)

\* ------------------------------------------------------- Then and Catch
\* The task function of p has returned (its Result is r[p]).
Returned(p) == pc[p] \in {"commit", "send", "close", "done"}
Committed(p) == pc[p] \in {"close", "done"}

\* p (a Then or Catch promise) is the only consumer of its parent.
SoleConsumer(p) ==
    /\ \A q \in Promises \ {p} : parent[q] # parent[p]
    /\ \A a \in Awaiters : awTarget[a] # parent[p]

\* a is the only consumer of the promise it awaits.
OnlyAwaiter(a) ==
    /\ \A b \in Awaiters \ {a} : awTarget[b] # awTarget[a]
    /\ \A q \in Promises : parent[q] # awTarget[a]

\* C2: when the parent's task rejected with e, parent.Then(f) rejects with
\* the same e (as the Result of its task, in p.err once committed, and in
\* every Await on it) and f is never invoked, at every link of a chain.
C2_ThenForwardsRejection ==
    \A p \in Promises :
        (kind[p] = "then" /\ Returned(parent[p]) /\ Rejects(r[parent[p]]))
            => /\ calls[p] = <<>>
               /\ Returned(p) => r[p] = r[parent[p]]
               /\ Committed(p) => err[p] = r[parent[p]].Left.value
               /\ \A a \in Awaiters :
                      (awTarget[a] = p /\ awPc[a] = "done")
                          => awRet[a] = r[parent[p]]

\* A Then at the end of a two-link chain has committed the root's error.
C2_Witness ==
    \E p \in Promises :
        /\ kind[p] = "then" /\ kind[parent[p]] = "then"
        /\ Rejects(taskRes[1])
        /\ pc[p] = "done"
        /\ err[p] = taskRes[1].Left.value

\* C9: when the parent fulfilled with v and parent.Then(f) is the parent's
\* only consumer, f is invoked exactly once, with v, the task of the new
\* promise returns f(v), an Error from f is stored as the promise's error,
\* and the one Await on the new promise returns f(v).
C9_ThenAppliesFn ==
    \A p \in Promises :
        (/\ kind[p] = "then" /\ SoleConsumer(p)
         /\ Returned(parent[p]) /\ IsOK(r[parent[p]]))
            => LET v == r[parent[p]].Right.value IN
               /\ ~Returned(p) => calls[p] = <<>>
               /\ Returned(p) => calls[p] = <<v>> /\ r[p] = ApplyFn(fn[p], v)
               /\ (Committed(p) /\ fn[p] = "fail") => err[p] = Err("ef")
               /\ \A a \in Awaiters :
                      (awTarget[a] = p /\ awPc[a] = "done" /\ OnlyAwaiter(a))
                          => awRet[a] = ApplyFn(fn[p], v)

\* A sole-consumer Then has returned f(v) and its one awaiter has got it.
C9_Witness ==
    \E p \in Promises, a \in Awaiters :
        /\ kind[p] = "then" /\ SoleConsumer(p) /\ fn[p] = "next"
        /\ IsOK(r[parent[p]]) /\ calls[p] = <<r[parent[p]].Right.value>>
        /\ awTarget[a] = p /\ OnlyAwaiter(a) /\ awPc[a] = "done"
        /\ pc[p] = "done"

\* C10: parent.Catch(f) has the parent's outcome (the value the parent's
\* task returned when fulfilled, its error when rejected) and f is invoked
\* exactly once, with the error, when the parent rejected and never when it
\* fulfilled.
C10_CatchPassesThrough ==
    \A p \in Promises :
        (/\ kind[p] = "catch"
         /\ Returned(parent[p]) /\ Settles(r[parent[p]]) /\ Returned(p))
            => /\ r[p] = r[parent[p]]
               /\ calls[p] = IF Rejects(r[parent[p]])
                               THEN <<r[parent[p]].Left.value>> ELSE <<>>

\* ------------------------------------------------------------ All and Any
\* The inputs of aggregate p, and what their tasks return.
Inputs(p) == {ins[p][i] : i \in DOMAIN ins[p]}
AllInputsFulfill(p) == \A q \in Inputs(p) : IsOK(taskRes[q])
AllInputsReject(p) == \A q \in Inputs(p) : Rejects(taskRes[q])

\* C3: when every input fulfills, All fulfills with the inputs' values in
\* input-index order, whatever the order in which the inputs complete.
C3_AllInputOrder ==
    \A p \in Promises :
        (kind[p] = "all" /\ Returned(p) /\ AllInputsFulfill(p))
            => r[p] = OK([i \in DOMAIN ins[p] |-> taskRes[ins[p][i]].Right.value])

\* C4: when no input rejects, All fulfills with exactly one value per input
\* (length n, none lost or duplicated) under every interleaving of the
\* goroutines that write res.
C4_AllKeepsEveryValue ==
    \A p \in Promises :
        (kind[p] = "all" /\ Returned(p) /\ AllInputsFulfill(p))
            => /\ IsOK(r[p])
               /\ Len(r[p].Right.value) = Len(ins[p])
               /\ \A q \in Inputs(p) :
                      Cardinality({j \in DOMAIN r[p].Right.value :
                          r[p].Right.value[j] = taskRes[q].Right.value}) = 1

\* C5: Any fulfills only if some input's task has returned OK, and rejects
\* only when the task of every input has returned an error: it never
\* rejects while an input has fulfilled or is still running.
C5_AnyFulfillsIffSomeInput ==
    \A p \in Promises :
        (kind[p] = "any" /\ Returned(p))
            => /\ IsOK(r[p]) =>
                      \E q \in Inputs(p) : Returned(q) /\ IsOK(taskRes[q])
               /\ IsError(r[p]) =>
                      \A q \in Inputs(p) : Returned(q) /\ Rejects(taskRes[q])
               /\ (\E q \in Inputs(p) : IsOK(taskRes[q])) => IsOK(r[p])
               /\ AllInputsReject(p) => Rejects(r[p])

\* Any has fulfilled although one of its inputs rejected.
C5_Witness ==
    \E p \in Promises :
        /\ kind[p] = "any" /\ Committed(p) /\ IsOK(r[p])
        /\ \E q \in Inputs(p) : Returned(q) /\ Rejects(taskRes[q])
        /\ \E q \in Inputs(p) : Returned(q) /\ IsOK(taskRes[q])

\* C6: when every input of Any (n >= 1) rejects, Any eventually rejects:
\* the receive on resultChan is unblocked by the close and the rejection is
\* committed (p.err set, channel closed).
C6_AnyRejectsEventually ==
    (\E p \in Promises :
        kind[p] = "any" /\ Len(ins[p]) >= 1 /\ AllInputsReject(p))
    ~> (\E p \in Promises :
        kind[p] = "any" /\ Terminal(p) /\ err[p] = Err("all promises failed"))

\* Any over two or more rejecting inputs has committed its rejection.
C6_Witness ==
    \E p \in Promises :
        /\ kind[p] = "any" /\ Len(ins[p]) >= 2 /\ AllInputsReject(p)
        /\ Terminal(p) /\ err[p] = Err("all promises failed")
        /\ rcClosed[p]

\* C7: once Any has completed and every input is terminal, every goroutine
\* Any spawned (one per input, and the closing one) terminates: the program
\* cannot come to rest with one of them still blocked.
C7_AnyGoroutinesEnd ==
    \A p \in Promises :
        (/\ kind[p] = "any" /\ Terminal(p)
         /\ \A q \in Inputs(p) : Terminal(q)
         /\ ~ENABLED NextAny)
            => /\ \A i \in DOMAIN wpc[p] : wpc[p][i] = "done"
               /\ watcher[p] = "done"

\* C11: All's task does not return (so the aggregate neither fulfills nor
\* rejects) before the task of every input has returned and its outcome has
\* been handed over (value received, or error stored and channel closed);
\* a rejected input neither ends the aggregate early nor keeps another
\* input's task from running.
C11_AllWaitsForEveryInput ==
    \A p \in Promises :
        (kind[p] = "all" /\ Returned(p))
            => \A q \in Inputs(p) : Returned(q) /\ Committed(q)

\* All has rejected, and the task of a fulfilling input has run to its end.
C11_Witness ==
    \E p \in Promises :
        /\ kind[p] = "all" /\ Committed(p) /\ Rejects(r[p])
        /\ \E q \in Inputs(p) : IsOK(taskRes[q]) /\ Terminal(q)
        /\ \E q \in Inputs(p) : Rejects(taskRes[q]) /\ Terminal(q)

C13_AllJoinsEveryCause ==
    \A p \in Promises :
        (kind[p] = "all" /\ Returned(p))
            => \A q \in Inputs(p) :
                   Rejects(taskRes[q])
                       => /\ IsError(r[p])
                          /\ Contains(r[p].Left.value, taskRes[q].Left.value)

\* C14: when Any fulfills, its value is the value of an input that fulfilled
\* (never a zero value, never from a rejected input), and that input's task
\* had returned by then.
C14_AnyValueFromFulfilledInput ==
    \A p \in Promises :
        (kind[p] = "any" /\ Returned(p) /\ IsOK(r[p]))
            => \E q \in Inputs(p) :
                   /\ Returned(q)
                   /\ IsOK(taskRes[q])
                   /\ r[p].Right.value = taskRes[q].Right.value

\* C15: once an input of Any has fulfilled, Any eventually fulfills, even
\* when the tasks of other inputs never return.
C15_AnyFulfillsDespitePending ==
    (\E p \in Promises :
        kind[p] = "any" /\ \E q \in Inputs(p) : Returned(q) /\ IsOK(r[q]))
    ~> (\E p \in Promises : kind[p] = "any" /\ Returned(p) /\ IsOK(r[p]))

\* Any has fulfilled while an input is pending for ever and its goroutine
\* is still in Await.
C15_Witness ==
    \E p \in Promises :
        /\ kind[p] = "any" /\ Committed(p) /\ IsOK(r[p])
        /\ \E i \in DOMAIN ins[p] :
              kind[ins[p][i]] = "never" /\ wpc[p][i] = "await"
        /\ ~ENABLED NextAny

\* C16: when every input of Any rejects, the error of Any's rejection
\* contains the error of each input.
C16_AnyKeepsCauses ==
    \A p \in Promises :
        (kind[p] = "any" /\ Returned(p) /\ AllInputsReject(p))
            => \A q \in Inputs(p) :
                   /\ IsError(r[p])
                   /\ Contains(r[p].Left.value, taskRes[q].Left.value)

\* C17: Any of zero promises rejects without blocking: the closing
\* goroutine's wg.Wait() returns at once, resultChan is closed, the task
\* returns an Error, and Await on the promise returns an Error.
C17_AnyOfNoneRejects ==
    \A p \in Promises :
        (kind[p] = "any" /\ Len(ins[p]) = 0)
            => /\ watcher[p] = "wait" => ENABLED AnyWatcherWait(p)
               /\ Returned(p) => Rejects(r[p]) /\ rcClosed[p]
               /\ ~ENABLED NextAny
                      => /\ Terminal(p) /\ err[p] # NilErr
                         /\ \A a \in Awaiters :
                                awPc[a] = "done" /\ Rejects(awRet[a])

\* Any of zero promises is terminal and its Await has returned.
C17_Witness ==
    \E p \in Promises, a \in Awaiters :
        /\ kind[p] = "any" /\ Len(ins[p]) = 0 /\ Terminal(p)
        /\ awTarget[a] = p /\ awPc[a] = "done" /\ Rejects(awRet[a])

\* C18: All of zero promises fulfills with the empty sequence without
\* blocking: wg.Wait() returns at once, the task returns OK of a sequence of
\* length 0, and that is what Await on the promise returns.
C18_AllOfNoneFulfills ==
    \A p \in Promises :
        (kind[p] = "all" /\ Len(ins[p]) = 0)
            => /\ pc[p] = "wait" => ENABLED AllJoin(p)
               /\ Returned(p) => r[p] = OK(<<>>)
               /\ ~ENABLED NextAll
                      => /\ Returned(p)
                         /\ \A a \in Awaiters :
                                /\ awPc[a] = "done" /\ Terminal(p)
                                /\ IsOK(awRet[a])
                                /\ Len(awRet[a].Right.value) = 0

\* All of zero promises is terminal and its Await has returned.
C18_Witness ==
    \E p \in Promises, a \in Awaiters :
        /\ kind[p] = "all" /\ Len(ins[p]) = 0 /\ Terminal(p)
        /\ awTarget[a] = p /\ awPc[a] = "done" /\ awRet[a] = OK(<<>>)

\* C19: for a promise with a single Await call, Await returns a Result of
\* the variant and payload of the Result the task returned, for every Result
\* built with OK(v) or Error(e): an Error Result always gives a rejected
\* promise, OK(v) always gives OK(v).
C19_AwaitKeepsVariant ==
    \A a \in Awaiters :
        (Awaiters = {a} /\ awPc[a] = "done")
            => /\ IsOK(awRet[a]) <=> IsOK(taskRes[awTarget[a]])
               /\ IsError(awRet[a]) <=> IsError(taskRes[awTarget[a]])
               /\ awRet[a].Right = taskRes[awTarget[a]].Right
               /\ awRet[a].Left = taskRes[awTarget[a]].Left

\* How far the goroutine of a promise has come.
PcRank(s) ==
    CASE s = "run" -> 0
      [] s \in {"wait", "recv"} -> 1
      [] s = "commit" -> 2
      [] s = "send" -> 3
      [] s = "close" -> 4
      [] s = "done" -> 5

\* One step of the program, for every promise: err is written only by the
\* promise's own goroutine on its way from the task's return to the close,
\* and only once; a value leaves only from the goroutine's one send; the
\* channel is closed only by the goroutine's last step, and only once;
\* nothing changes after that.
C20_Step ==
    \A p \in Promises :
        /\ PcRank(pc'[p]) >= PcRank(pc[p])
        /\ err'[p] # err[p]
               => err[p] = NilErr /\ pc[p] = "commit" /\ pc'[p] = "close"
        /\ (pc[p] = "send" /\ pc'[p] # "send") => pc'[p] = "close"
        /\ closed'[p] # closed[p]
               => ~closed[p] /\ pc[p] = "close" /\ pc'[p] = "done"
        /\ pc[p] = "done"
               => pc'[p] = "done" /\ err'[p] = err[p] /\ closed'[p] = closed[p]

C20_OwnGoroutineOnly == [][C20_Step]_vars

\* C20: each promise commits exactly once and only through its own
\* goroutine: err is assigned at most once, at most one value is sent, and
\* the channel is closed exactly once (once the task has returned, the close
\* comes), after which nothing is sent, closed or written; no consumer
\* writes the err field or the channel of a promise.
C20_CommitsExactlyOnce ==
    /\ C20_OwnGoroutineOnly
    /\ (\E p \in Promises : Returned(p)) ~> (\E p \in Promises : closed[p])

\* C21: New, Then, Catch, All and Any return their promise without waiting:
\* the call the main goroutine has come to can always return, whatever the
\* state of the parent or of the inputs (even one whose task never returns).
\* Only Await can leave its caller blocked.
C21_ConstructorsNeverBlock ==
    \A p \in Promises :
        (pc[p] = "new" /\ \A q \in Promises : q < p => pc[q] # "new")
            => ENABLED Constructor(p)

\* Then, Catch, All or Any was made of a promise whose task never returns,
\* and the Await on the new promise is blocked for good.
C21_Witness ==
    \E p \in Promises, a \in Awaiters :
        /\ kind[p] \in {"then", "catch", "all", "any"} /\ pc[p] # "new"
        /\ kind[1] = "never"
        /\ awTarget[a] = p /\ awPc[a] = "call"
        /\ ~ENABLED NextBuild

\* C22: no Await call on a promise returns before the promise's task has
\* returned and its outcome is handed over (value sent, or error stored and
\* channel closed), and the callback given to Then or Catch is never invoked
\* before that has happened for the parent.
C22_AwaitAfterCommit ==
    /\ \A a \in Awaiters :
           awPc[a] = "done"
               => Returned(awTarget[a]) /\ Committed(awTarget[a])
    /\ \A p \in Promises :
           (kind[p] \in {"then", "catch"} /\ calls[p] # <<>>)
               => Returned(parent[p]) /\ Committed(parent[p])

\* An Await on a Then or Catch promise whose callback ran has returned.
C22_Witness ==
    \E p \in Promises, a \in Awaiters :
        /\ kind[p] \in {"then", "catch"} /\ calls[p] # <<>>
        /\ awTarget[a] = p /\ awPc[a] = "done"

\* C23: once the task of a promise has returned, every Await call on the
\* promise, however many there are and whenever they were issued,
\* eventually returns, and what it returns is a Result (one side set).
C23_EveryAwaitReturns ==
    (\E p \in Promises : Returned(p))
    ~> (\A a \in Awaiters :
            /\ awPc[a] = "done"
            /\ awRet[a].Left.isSet # awRet[a].Right.isSet)

\* All of several Await calls on one promise have returned.
C23_Witness ==
    /\ Cardinality(Awaiters) >= 2
    /\ \A a \in Awaiters : awPc[a] = "done"
    /\ IsOK(taskRes[1])

\* C24: in the root package, when the parent's task rejected with e,
\* parent.Then(successFn) does not invoke successFn and the promise it
\* returns is rejected with e (in its task's Result, in p.err once
\* committed, and in what Await on it returns).
C24_RootThenForwardsRejection ==
    \A p \in Promises :
        (kind[p] = "rthen" /\ Returned(parent[p]) /\ Rejects(r[parent[p]]))
            => /\ calls[p] = <<>>
               /\ Returned(p) => r[p] = r[parent[p]]
               /\ Committed(p) => err[p] = r[parent[p]].Left.value
               /\ \A a \in Awaiters :
                      (awTarget[a] = p /\ awPc[a] = "done")
                          => awRet[a] = r[parent[p]]

\* The Then calls made so far, and v after the callbacks of fs in turn.
ThenOps == SelectSeq(ops, LAMBDA o : o.op = "Then")
RECURSIVE Applied(_, _)
Applied(v, fs) ==
    IF fs = <<>> THEN v ELSE Applied(ApplyT(Head(fs).f, v), Tail(fs))

\* C29: Just(v).IsSet() is true and Just(v).Value() is v; Nothing().IsSet()
\* is false; Just(v).Then(f).Value() is f(v) with f invoked exactly once
\* (with v), and so on for every further Then; Nothing().Then(f) stays
\* absent and never invokes f; Then never changes whether a value is set.
C29_OptionalLaws ==
    /\ \A v \in Values : IsSet(Just(v)) /\ Value(Just(v)) = v
    /\ ~IsSet(Nothing(IntT))
    /\ IsSet(cur) = IsSet(made)
    /\ ~IsSet(made) => trace = <<>> /\ cur = made
    /\ IsSet(made) =>
          /\ Value(cur) = Applied(Value(made), ThenOps)
          /\ Len(trace) = Len(ThenOps)
          /\ \A i \in DOMAIN trace :
                /\ trace[i].f = ThenOps[i].f
                /\ trace[i].arg
                       = Applied(Value(made), SubSeq(ThenOps, 1, i - 1))
    /\ (ops # <<>> /\ ops[Len(ops)].op = "Value" /\ IsSet(made))
          => ret = Returns(Applied(Value(made), ThenOps))
    /\ (ops # <<>> /\ ops[Len(ops)].op = "IsSet")
          => ret = Returns(IsSet(made))

\* Just(v).Then(f).Value() has returned, f changing the value.
C29_Witness ==
    /\ IsSet(made)
    /\ Len(ops) = 2 /\ ops[1].op = "Then" /\ ops[2].op = "Value"
    /\ Len(trace) = 1
    /\ ret.value # Value(made)

\* C30: Value() on an absent Optional fails loudly (a panic or an error
\* outcome); it never returns a zero value as if it were stored.
C30_ValueOfNothingFails ==
    (ops # <<>> /\ ops[Len(ops)].op = "Value" /\ ~IsSet(cur))
        => ret.panicked

\* The last step of the program, and the number of e = e.Flip() so far.
LastOp == IF ops = <<>> THEN "none" ELSE ops[Len(ops)].op
Taken == Len(SelectSeq(ops, LAMBDA o : o.op = "take"))

\* C25: every Either built by Left or Right, and every Either reached from
\* it by Flip, IfLeftThen, IfRightThen, ToLeft and ToRight, has exactly one
\* side present: IsLeft() and IsRight() are never both true, never both
\* false.
C25_ExactlyOneSide ==
    /\ IsLeft(made) # IsRight(made)
    /\ IsLeft(cur) # IsRight(cur)
    /\ LastOp \in {"Flip", "IfLeftThen", "IfRightThen"}
          => IsLeft(ret.value) # IsRight(ret.value)
    /\ LastOp = "IsLeft" => ret.value = ~IsRight(cur)
    /\ LastOp = "IsRight" => ret.value = ~IsLeft(cur)

\* The program holds an Either it got by flipping and has called
\* IfLeftThen on it.
C25_Witness ==
    /\ Taken = 1
    /\ LastOp = "IfLeftThen"
    /\ IsLeft(ret.value)
    /\ trace # <<>>

\* C28: Left(l).Flip() is a Right holding l, Right(r).Flip() is a Left
\* holding r, flipping twice gives an Either with the side and value of the
\* original, and Flip leaves its receiver as it was.
C28_FlipSwaps ==
    /\ \A v \in Values : Flip(Left(v)) = Right(v) /\ Flip(Right(v)) = Left(v)
    /\ LastOp = "Flip" =>
          /\ IsRight(ret.value) = IsLeft(cur)
          /\ IsLeft(ret.value) = IsRight(cur)
          /\ IsLeft(cur) => Value(ToRight(ret.value)) = Value(ToLeft(cur))
          /\ IsRight(cur) => Value(ToLeft(ret.value)) = Value(ToRight(cur))
          /\ Taken = 1 => ret.value = made
    /\ cur = (IF Taken % 2 = 0 THEN made ELSE Flip(made))

\* The Either has been flipped twice.
C28_Witness ==
    /\ Len(ops) = 3
    /\ ops[1].op = "Flip" /\ ops[2].op = "take" /\ ops[3].op = "Flip"
    /\ ret.value = made
    /\ cur # made

\* The invocations that the method calls os on the Result x are to make.
RECURSIVE Expected(_, _)
Expected(x, os) ==
    IF os = <<>> THEN <<>>
    ELSE (CASE Head(os).op = "IfOKThen" /\ IsOK(x) ->
                   <<[f |-> Head(os).f, arg |-> x.Right.value]>>
            [] Head(os).op = "IfErrorThen" /\ ~IsOK(x) ->
                   <<[f |-> Head(os).f, arg |-> x.Left.value]>>
            [] OTHER -> <<>>) \o Expected(x, Tail(os))

\* C26: for every Result built by OK, Error or NewResult exactly one of
\* IsOK() and IsError() is true; in r.IfOKThen(a).IfErrorThen(b) exactly
\* one of a, b is invoked, exactly once, with the stored value (a) or the
\* stored error (b); both methods return r, variant and payload unchanged.
C26_ResultExclusive ==
    ops # <<>> =>
        /\ IsOK(cur) # IsError(cur)
        /\ cur = made
        /\ LastOp = "IsOK" => ret = Returns(made.Right.isSet)
        /\ LastOp = "IsError" => ret = Returns(~made.Right.isSet)
        /\ LastOp \in {"IfOKThen", "IfErrorThen"} => ret = Returns(made)
        /\ trace = Expected(made, ops)
        /\ (/\ Len(ops) = 3
            /\ ops[2] = [op |-> "IfOKThen", f |-> "a"]
            /\ ops[3] = [op |-> "IfErrorThen", f |-> "b"])
               => /\ Len(trace) = 1
                  /\ made.Right.isSet
                         => trace[1] = [f |-> "a", arg |-> made.Right.value]
                  /\ ~made.Right.isSet
                         => trace[1] = [f |-> "b", arg |-> made.Left.value]

\* r.IfOKThen(a).IfErrorThen(b) has returned for an Error Result.
C26_Witness ==
    /\ Len(ops) = 3
    /\ ops[1].op = "Error"
    /\ ops[2] = [op |-> "IfOKThen", f |-> "a"]
    /\ ops[3] = [op |-> "IfErrorThen", f |-> "b"]
    /\ Len(trace) = 1 /\ trace[1].f = "b"

\* C27: NewResult(t, e) is equal to Error(e) whenever e is non-nil,
\* whatever t is (t is discarded), and to OK(t) when e is nil.
C27_NewResultFromOutcome ==
    (ops # <<>> /\ ops[1].op = "NewResult") =>
        LET t == ops[1].args[1]
            e == ops[1].args[2]
        IN  /\ e # NilErr =>
                  /\ made = [Left |-> Just(e), Right |-> Nothing(IntT)]
                  /\ IsError(made) /\ Value(made.Left) = e
            /\ e = NilErr =>
                  /\ made = [Left |-> Nothing(ErrT), Right |-> Just(t)]
                  /\ IsOK(made) /\ Value(made.Right) = t

\* NewResult was called with a non-zero value and a non-nil error.
C27_Witness ==
    /\ ops # <<>> /\ ops[1].op = "NewResult"
    /\ ops[1].args[1] # IntT /\ ops[1].args[2] # NilErr
    /\ IsError(made)

\* C31: once an Optional has been created by Just or Nothing, no sequence
\* of calls of IsSet, Value and Then changes the value stored in it.
C31_OptionalValueFrozen ==
    Value(cur) = Value(made) /\ IsSet(cur) = IsSet(made)

\* Where a start index points (negative: counted from the end; past the
\* end: the end), and how many elements a deleteCount removes from there.
StartAt(n, start) ==
    IF start < 0 THEN n + start ELSE IF start > n THEN n ELSE start
DeleteFrom(n, s, dc) == IF dc < 0 \/ s + dc > n THEN n - s ELSE dc

\* C32: Splice(start, deleteCount, items...) works in place and returns the
\* deleted elements: afterwards the receiver holds the old elements before
\* start, then items, then the old elements from start + deleteCount on,
\* and the returned array holds exactly the removed elements with the
\* values they had before the call, whatever the capacity of the storage.
C32_SpliceInPlace ==
    LastOp = "Splice" =>
        LET old == Contents(made)
            s == StartAt(made.len, ops[1].args[1])
            d == DeleteFrom(made.len, s, ops[1].args[2])
            items == ops[1].args[3]
        IN  /\ ~ret.panicked
            /\ Contents(cur)
                   = SubSeq(old, 1, s) \o items
                         \o SubSeq(old, s + d + 1, made.len)
            /\ ret.value = SubSeq(old, s + 1, s + d)

\* An index at most n, at least 0.
Clamp(n, i) == IF i < 0 THEN 0 ELSE IF i > n THEN n ELSE i

\* C34: Slice(start, end) returns, without failing, the elements from start
\* (inclusive) to end (exclusive), negative indices counted from the end,
\* for every array and every pair of integers (nothing when the two do not
\* overlap or start is at or past the length), and leaves the receiver's
\* contents and length as they were.
C34_SliceTotal ==
    LastOp = "Slice" =>
        LET n == made.len
            s == IF ops[1].args[1] < 0 THEN n + ops[1].args[1]
                                       ELSE ops[1].args[1]
            e == IF ops[1].args[2] < 0 THEN n + ops[1].args[2]
                                       ELSE ops[1].args[2]
        IN  /\ ~ret.panicked
            /\ ret.value = SubSeq(Contents(made), Clamp(n, s) + 1, Clamp(n, e))
            /\ cur = made

\* Python's range(start, stop, step), step # 0, as a sequence.
PyRange(start, stop, step) ==
    LET count == IF step > 0
                     THEN (IF stop > start
                               THEN (stop - start + step - 1) \div step
                               ELSE 0)
                     ELSE (IF start > stop
                               THEN (start - stop - step - 1) \div (0 - step)
                               ELSE 0)
    IN  [k \in 1..count |-> start + (k - 1) * step]

\* C33: Range(start, end, step) behaves like Python's range (with step 1
\* for a step of 0): for step > 0 it returns start, start+step, ... below
\* end, for step < 0 the descending sequence from start down to but
\* excluding end, and nothing when step does not lead from start to end.
C33_RangeLikePython ==
    LastOp = "Range" =>
        ret.value = PyRange(made.start, made.stop, StepOf(made))

\* The Then promises and the direct Await calls that consume promise q.
Continuations(q) == {p \in Promises : kind[p] = "then" /\ parent[p] = q}
DirectAwaits(q) == {a \in Awaiters : awTarget[a] = q}

\* C35: when two consumers are attached to the same parent (p.Then(f) and
\* p.Then(g), or p.Then(f) and a direct p.Await()) and the parent fulfills
\* with v, every consumer observes v: each callback is invoked with v and
\* the direct Await returns OK(v).
C35_EveryConsumerObserves ==
    \A q \in Promises :
        (/\ Returned(q) /\ IsOK(r[q])
         /\ Continuations(q) # {}
         /\ Cardinality(Continuations(q)) + Cardinality(DirectAwaits(q)) >= 2)
            => /\ \A p \in Continuations(q) :
                      Returned(p) => calls[p] = <<r[q].Right.value>>
               /\ \A a \in DirectAwaits(q) :
                      awPc[a] = "done" => awRet[a] = OK(r[q].Right.value)

\* An Await call returns in this step.
AwaitReturns(a) == awPc[a] = "call" /\ awPc'[a] = "done"

\* C36: for a promise whose task returns OK(v) and on which Await is called
\* n >= 1 times, exactly one call (the first to return) receives v from the
\* channel, every other call reads the closed channel and returns OK of the
\* zero value, no call returns an Error, and no call blocks forever.
C36_OneAwaitReceives ==
    /\ [][\A a \in Awaiters :
             (AwaitReturns(a) /\ IsOK(taskRes[awTarget[a]]))
                 => IF closed[awTarget[a]]
                        THEN /\ awRet'[a] = OK(IntT)
                             /\ \E b \in DirectAwaits(awTarget[a]) :
                                    awPc[b] = "done"
                        ELSE /\ awRet'[a] = OK(taskRes[awTarget[a]].Right.value)
                             /\ \A b \in DirectAwaits(awTarget[a]) :
                                    awPc[b] # "done"]_vars
    /\ (\E p \in Promises : Returned(p) /\ IsOK(r[p]))
           ~> (\A a \in Awaiters : awPc[a] = "done" /\ IsOK(awRet[a]))

\* Three Await calls on a promise fulfilled with a non-zero v have returned:
\* one with v, two with the zero value.
C36_Witness ==
    /\ IsOK(taskRes[1]) /\ taskRes[1].Right.value # IntT
    /\ Cardinality(Awaiters) >= 3
    /\ \A a \in Awaiters : awPc[a] = "done"
    /\ Cardinality({a \in Awaiters : awRet[a] = taskRes[1]}) = 1
    /\ Cardinality({a \in Awaiters : awRet[a] = OK(IntT)})
           = Cardinality(Awaiters) - 1

\* C37: for a promise whose task returns Error(e) with a non-nil e, every
\* Await call returns Error(e): the error is stored before the channel is
\* closed, so no call passes the receive and reads a nil err, and no Await
\* returns OK for such a promise.
C37_RejectedAwaitsGetError ==
    \A p \in Promises :
        Rejects(taskRes[p])
            => /\ closed[p] => err[p] = taskRes[p].Left.value
               /\ \A a \in DirectAwaits(p) :
                      awPc[a] = "done"
                          => /\ ~IsOK(awRet[a])
                             /\ awRet[a] = Error(IntT, taskRes[p].Left.value)

\* Several Await calls on a rejected promise have all returned its error.
C37_Witness ==
    /\ Rejects(taskRes[1])
    /\ Cardinality(Awaiters) >= 2
    /\ \A a \in Awaiters : awPc[a] = "done" /\ awRet[a] = taskRes[1]

\* C38: in Any, with the unbuffered and with the 1-buffered resultChan, no
\* goroutine sends on resultChan after it has been closed and resultChan is
\* closed at most once: when it is closed every per-promise goroutine has
\* finished its send and called Done and the closing goroutine has ended,
\* so no send and no second close can panic.
C38_AnyNoSendAfterClose ==
    \A p \in Promises :
        /\ (kind[p] \in {"any", "anybuf"} /\ rcClosed[p])
               => /\ \A i \in DOMAIN wpc[p] : wpc[p][i] = "done"
                  /\ wg[p] = 0
                  /\ watcher[p] = "done"
        /\ \A i \in DOMAIN wpc[p] : wpc[p][i] # "panic"

\* The 1-buffered resultChan was closed after two goroutines had sent: one
\* value was taken by Any's task, the other is still in the buffer.
C38_Witness ==
    \E p \in Promises :
        /\ kind[p] = "anybuf" /\ rcClosed[p]
        /\ IsOK(r[p]) /\ res[p] # <<>>

\* C39: if the task of every input promise eventually returns, the promise
\* returned by All eventually completes (its task returns, and an error is
\* stored and the channel closed) and every per-promise goroutine of All
\* terminates, also when a promise occurs more than once in the input or is
\* awaited by another consumer as well.
C39_AllCompletesShared ==
    <>(\A p \in Promises :
          kind[p] = "all"
              => /\ Returned(p)
                 /\ IsError(r[p]) => Terminal(p)
                 /\ \A i \in DOMAIN wpc[p] : wpc[p][i] = "done")

\* All over a promise passed twice and awaited directly as well has
\* returned, with all its goroutines ended.
C39_Witness ==
    \E p \in Promises :
        /\ kind[p] = "all" /\ Returned(p)
        /\ \E i, j \in DOMAIN ins[p] :
              /\ i # j /\ ins[p][i] = ins[p][j]
              /\ DirectAwaits(ins[p][i]) # {}
        /\ \A i \in DOMAIN wpc[p] : wpc[p][i] = "done"
        /\ \A a \in Awaiters : awPc[a] = "done"

====
